---- MODULE Spec2Model ----
(***************************************************************************)
(* Lead scoring, lead deduplication, notification gate and webhook         *)
(* dispatch of the ProntoPlus API (apps/api/src/modules/telnyx and         *)
(* modules/notifications).                                                 *)
(*                                                                         *)
(* Time is counted in whole hours.  A transcript is a sequence of tokens   *)
(* (words and punctuation marks); a keyword of several words matches a run *)
(* of consecutive tokens.  Sentiment is counted in thousandths.            *)
(***************************************************************************)
EXTENDS Integers, Sequences, FiniteSets, TLC

\* ------------------------------------------------------------------ values

\* an optional value: absent (undefined) or present
None == <<>>
Some(v) == <<v>>
IsSome(o) == Len(o) = 1
Val(o) == o[1]

NULL == "NULL"

Min(a, b) == IF a <= b THEN a ELSE b

\* -------------------------------------------------------------------- state

VARIABLES
  now,               \* wall clock, in hours; the server-local hour is now % 24
  ticks,             \* clock advances so far
  received,          \* webhook requests received so far
  lastResponse,      \* the HTTP response to the last webhook request
  traffic,           \* the kind of webhook traffic of this behaviour
  webhookSecret,     \* config telnyx.webhookSecret (None when not configured)
  slackConfigured,   \* config slack.webhookUrl is set
  calls,             \* table calls, in insertion order; a row's id is its index
  leads,             \* table demo_leads, in insertion order
  notificationLogs,  \* table notification_logs, in insertion order
  tasks,             \* handler invocations scheduled by setImmediate
  lastOutcome,       \* how the last finished handler invocation ended
  slackSent,         \* messages delivered to the Slack webhook, in order
  lastGate,          \* the last shouldSendNotification call: lead, time, result
  scored,            \* <<input, output>> of the calculateLeadScore invocations, in order
  scoreIn,           \* scorer harness: input of the last invocation
  scoreOut,          \* scorer harness: its result
  verifyIn,          \* signature harness: payload and telnyx-signature header
  verifyOut          \* signature harness: result of verifyWebhookSignature

vars ==
  <<now, ticks, received, lastResponse, traffic, webhookSecret, slackConfigured, calls,
    leads, notificationLogs, tasks, lastOutcome, slackSent, lastGate,
    scored, scoreIn, scoreOut, verifyIn, verifyOut>>

\* ------------------------------------------------------------ lead scorer

\* String.prototype.toLowerCase on one token
LowerToken(w) ==
  CASE w = "COST" -> "cost"
    [] w = "Cost" -> "cost"
    [] w = "Price" -> "price"
    [] w = "How" -> "how"
    [] w = "Insurance" -> "insurance"
    [] w = "Schedule" -> "schedule"
    [] w = "When" -> "when"
    [] w = "What" -> "what"
    [] w = "Do" -> "do"
    [] w = "Can" -> "can"
    [] w = "I" -> "i"
    [] OTHER -> w

\* callData.transcript?.toLowerCase() || ''
toLowerCase(transcript) ==
  IF IsSome(transcript)
  THEN [i \in 1..Len(Val(transcript)) |-> LowerToken(Val(transcript)[i])]
  ELSE <<>>

\* String.prototype.includes: the keyword occurs as a run of consecutive tokens
includes(text, keyword) ==
  \E i \in 1..Len(text) :
    /\ i + Len(keyword) - 1 <= Len(text)
    /\ \A j \in 1..Len(keyword) : text[i + j - 1] = keyword[j]

\* Array.prototype.includes on the topics list
topicsInclude(topics, topic) == \E i \in 1..Len(topics) : topics[i] = topic

\* (transcript.match(/\?/g) || []).length
questionCount(text) == Cardinality({i \in 1..Len(text) : text[i] = "?"})

sentimentPoints_Truncated(sentiment) == (sentiment * 20) \div 1000

\* Math.round(sentiment * 20), sentiment in thousandths; halves round up
sentimentPoints(sentiment) == (sentiment * 20 + 500) \div 1000

\* Math.min(Math.floor(duration / 10), 30)
durationPoints(duration) == Min(duration \div 10, 30)

pricingRule(text, topics) ==
  \/ includes(text, <<"cost">>) \/ includes(text, <<"price">>)
  \/ includes(text, <<"how", "much">>) \/ topicsInclude(topics, "pricing")

insuranceRule(text, topics) ==
  \/ includes(text, <<"insurance">>) \/ includes(text, <<"coverage">>)
  \/ topicsInclude(topics, "insurance")

schedulingRule(text, topics) ==
  \/ includes(text, <<"appointment">>) \/ includes(text, <<"schedule">>)
  \/ includes(text, <<"when", "can">>) \/ topicsInclude(topics, "scheduling")

\* the breakdown record, as the list of its entries in insertion order
scoreBreakdown(callData) ==
  LET text == toLowerCase(callData.transcript)
      topics == IF IsSome(callData.topics) THEN Val(callData.topics) ELSE <<>>
  IN  <<<<"call_duration", durationPoints(callData.duration)>>>>
      \o (IF pricingRule(text, topics) THEN <<<<"pricing_interest", 20>>>> ELSE <<>>)
      \o (IF insuranceRule(text, topics) THEN <<<<"insurance_interest", 15>>>> ELSE <<>>)
      \o (IF schedulingRule(text, topics) THEN <<<<"appointment_intent", 25>>>> ELSE <<>>)
      \o (IF IsSome(callData.sentiment)
          THEN <<<<"positive_sentiment", sentimentPoints(Val(callData.sentiment))>>>>
          ELSE <<>>)
      \o (IF questionCount(text) >= 3 THEN <<<<"engagement", 10>>>> ELSE <<>>)
      \o (IF callData.duration > 180 THEN <<<<"long_call_bonus", 10>>>> ELSE <<>>)

RECURSIVE sumPoints(_)
sumPoints(entries) ==
  IF entries = <<>> THEN 0 ELSE Head(entries)[2] + sumPoints(Tail(entries))

capScore_Uncapped(score) == score

\* score = Math.min(score, 100)
capScore(score) == Min(score, 100)

qualityOf_Exclusive(score) ==
  IF score > 75 THEN "HOT" ELSE IF score > 50 THEN "WARM" ELSE "COLD"

qualityOf(score) ==
  IF score >= 75 THEN "HOT" ELSE IF score >= 50 THEN "WARM" ELSE "COLD"

\* the running score kept across invocations instead of starting at 0
calculateLeadScore_Stateful(callData) ==
  LET breakdown == scoreBreakdown(callData)
      carried == IF scored = <<>> THEN 0 ELSE scored[Len(scored)][2].score
      score == capScore(carried + sumPoints(breakdown))
  IN  [score |-> score, quality |-> qualityOf(score), breakdown |-> breakdown]

calculateLeadScore(callData) ==
  LET breakdown == scoreBreakdown(callData)
      score == capScore(sumPoints(breakdown))
  IN  [score |-> score, quality |-> qualityOf(score), breakdown |-> breakdown]

\* a flag that is only false for an entry of zero points or less
breakdownPositive_AbsentCounts(breakdown, name) ==
  ~\E i \in 1..Len(breakdown) : breakdown[i][1] = name /\ breakdown[i][2] <= 0

\* breakdown[name] > 0, where a missing entry is undefined and undefined > 0 is false
breakdownPositive(breakdown, name) ==
  \E i \in 1..Len(breakdown) : breakdown[i][1] = name /\ breakdown[i][2] > 0

\* JSON.stringify(scoring.breakdown): the entries in order, numbers printed as text
JSONstringify(breakdown) ==
  [i \in 1..Len(breakdown) |-> <<breakdown[i][1], ToString(breakdown[i][2])>>]

\* ------------------------------------------------------------------ bounds

MaxCalls == 2        \* distinct external (Telnyx) call ids
MaxEvents == 4       \* webhook requests received in one behaviour
MaxInFlight == 2     \* handler invocations running at the same time
MaxTicks == 1        \* clock advances in one behaviour
MaxTranscriptLen == 3 \* tokens of a generated transcript

\* -------------------------------------------------------- program constants

DEDUP_WINDOW == 7 * 24      \* 7 * 24 * 60 * 60 * 1000 ms, in hours
COOLDOWN == 24              \* 24 * 60 * 60 * 1000 ms, in hours
QUIET_START == 22
QUIET_END == 8

\* ------------------------------------------------------------------- inputs

NoTime == -1
StartHours == {9}
TickSteps == {13, 24, 48, 7 * 24, 8 * 24}

TelnyxId(i) == <<"v3", i>>
TelnyxIds == {TelnyxId(i) : i \in 1..MaxCalls}
CallerPhones == {"+15550001"}

\* data of a call.completed event
ColdCall ==
  [duration_seconds |-> None, transcript |-> None, sentiment |-> None, topics |-> None]
WarmCall ==
  [duration_seconds |-> Some(300), transcript |-> Some(<<"How", "much", "?">>),
   sentiment |-> None, topics |-> Some(<<>>)]
HotCall ==
  [duration_seconds |-> Some(600),
   transcript |-> Some(<<"What", "is", "the", "cost", "of", "braces", "?",
                         "Do", "you", "take", "insurance", "?",
                         "Can", "I", "schedule", "an", "appointment", "?",
                         "How", "long", "does", "it", "take", "?">>),
   sentiment |-> Some(900),
   topics |-> Some(<<"pricing", "insurance", "scheduling">>)]
Completions == {WarmCall, HotCall}

EventTypes ==
  {"call.initiated", "call.answered", "call.completed", "call.recording.saved",
   "call.transcript.ready"}

NoData == [duration_seconds |-> None, transcript |-> None, sentiment |-> None, topics |-> None]

\* webhook payloads: meta.event_type and the data.* fields the handlers read
Payload(event_type, id, from, completion) ==
  [event_type |-> event_type, id |-> id, from |-> from, completion |-> completion]

\* the webhook traffic of one behaviour is either the lifecycle events of up to
\* MaxCalls calls, or events of every type for one call
Traffic == {"lifecycle", "every type"}

Payloads(mix) ==
  IF mix = "lifecycle"
  THEN {Payload("call.initiated", id, from, NoData) :
          id \in TelnyxIds, from \in {None} \cup {Some(p) : p \in CallerPhones}}
       \cup {Payload("call.completed", id, None, c) : id \in TelnyxIds, c \in Completions}
  ELSE {Payload("call.initiated", TelnyxId(1), Some(p), NoData) : p \in CallerPhones}
       \cup {Payload("call.completed", TelnyxId(1), None, c) : c \in Completions}
       \cup {Payload(type, TelnyxId(1), None, NoData) :
               type \in {"call.answered", "call.recording.saved",
                         "call.transcript.ready", "call.hangup", NULL}}

\* the telnyx-signature header: absent, or a MAC with or without the sha256= prefix
NoSignature == None
ConfiguredSecret == "prontoplus_webhook_secret"

\* crypto.createHmac('sha256', secret).update(JSON.stringify(payload)).digest():
\* the MAC is a collision-free tag of two bytes over the secrets and the payloads
\* explored
typeIndex(event_type) ==
  CASE event_type = "call.initiated" -> 1
    [] event_type = "call.answered" -> 2
    [] event_type = "call.completed" -> 3
    [] event_type = "call.recording.saved" -> 4
    [] event_type = "call.transcript.ready" -> 5
    [] event_type = "call.hangup" -> 6
    [] OTHER -> 0
dataIndex(payload) ==
  (IF IsSome(payload.from) THEN 8 ELSE 0)
  + (CASE payload.completion = NoData -> 0
       [] payload.completion = WarmCall -> 1
       [] payload.completion = HotCall -> 2
       [] OTHER -> 3)
Hmac(secret, payload) ==
  <<160 + (IF secret = ConfiguredSecret THEN 0 ELSE 8) + typeIndex(payload.event_type),
    16 * payload.id[2] + dataIndex(payload)>>

\* strings are sequences of one-character strings
HexDigits == <<"0", "1", "2", "3", "4", "5", "6", "7", "8", "9",
               "a", "b", "c", "d", "e", "f">>
UpperHexDigits == <<"0", "1", "2", "3", "4", "5", "6", "7", "8", "9",
                    "A", "B", "C", "D", "E", "F">>
Sha256Prefix == <<"s", "h", "a", "2", "5", "6", "=">>

\* digest('hex'): two lower-case hex digits per byte
RECURSIVE toHex(_)
toHex(bytes) ==
  IF bytes = <<>> THEN <<>>
  ELSE <<HexDigits[(Head(bytes) \div 16) + 1], HexDigits[(Head(bytes) % 16) + 1]>>
       \o toHex(Tail(bytes))

\* the value of a hex digit of either case, -1 for any other character
unhex(c) ==
  IF \E n \in 1..16 : HexDigits[n] = c \/ UpperHexDigits[n] = c
  THEN (CHOOSE n \in 1..16 : HexDigits[n] = c \/ UpperHexDigits[n] = c) - 1
  ELSE -1

\* Buffer.from(str, 'hex'): decoding stops at the first pair that is not two hex
\* digits; a trailing single character is dropped
RECURSIVE fromHex(_)
fromHex(str) ==
  IF Len(str) < 2 THEN <<>>
  ELSE IF unhex(str[1]) < 0 \/ unhex(str[2]) < 0 THEN <<>>
  ELSE <<16 * unhex(str[1]) + unhex(str[2])>> \o fromHex(SubSeq(str, 3, Len(str)))

\* String.prototype.replace(pattern, '') with a string pattern: the first
\* occurrence is removed
replaceFirst(str, pattern) ==
  LET at == {i \in 1..(Len(str) - Len(pattern) + 1) :
               SubSeq(str, i, i + Len(pattern) - 1) = pattern}
  IN  IF at = {} THEN str
      ELSE LET i == CHOOSE k \in at : \A j \in at : k <= j
           IN  SubSeq(str, 1, i - 1) \o SubSeq(str, i + Len(pattern), Len(str))

\* crypto.timingSafeEqual throws a RangeError on buffers of different length
timingSafeEqual(a, b) ==
  IF Len(a) # Len(b) THEN "RangeError" ELSE IF a = b THEN "true" ELSE "false"

\* the telnyx-signature headers of the webhook traffic: none, the MAC under the
\* configured secret with the sha256= prefix, the MAC under another secret
Signatures(payload) ==
  {NoSignature,
   Some(Sha256Prefix \o toHex(Hmac(ConfiguredSecret, payload))),
   Some(toHex(Hmac("other secret", payload)))}

\* lifecycle traffic is unsigned; the events of every type come with each header
TrafficSignatures(mix, payload) ==
  IF mix = "lifecycle" THEN {NoSignature} ELSE Signatures(payload)

\* the configurations and traffic explored: TELNYX_WEBHOOK_SECRET and
\* SLACK_WEBHOOK_URL are each set or unset
Deployment(mix, secret, slack) ==
  [traffic |-> mix, webhookSecret |-> secret, slackConfigured |-> slack]
Deployments ==
  {Deployment("lifecycle", None, TRUE),
   Deployment("every type", Some(ConfiguredSecret), TRUE),
   Deployment("every type", None, FALSE)}

\* ------------------------------------------------------------ state, cont.

dbVars == <<calls, leads, notificationLogs>>
configVars == <<traffic, webhookSecret, slackConfigured>>
httpVars == <<received, lastResponse>>
taskVars == <<tasks, lastOutcome>>
harnessVars == <<scoreIn, scoreOut, verifyIn, verifyOut>>
historyVars == <<slackSent, lastGate>>

\* the slots of the handler invocations that can be in flight
TaskIds == DOMAIN tasks

NoPayload ==
  [event_type |-> "none", id |-> TelnyxId(0), from |-> None, completion |-> NoData]

IdleTask ==
  [pc |-> "idle", payload |-> NoPayload, signature |-> NoSignature,
   call |-> None, lead |-> None, scoring |-> None, existingLead |-> None]

\* new Date().getHours()
getHours(t) == t % 24

\* --------------------------------------------------------------- the tables

callByTelnyxId(id) == {i \in 1..Len(calls) : calls[i].telnyxCallId = id}
leadByCallId(callId) == {i \in 1..Len(leads) : leads[i].callId = callId}

telnyxCallIdFree_NoIndex(id) == TRUE

\* CREATE UNIQUE INDEX "calls_telnyxCallId_key": an insert is refused unless no
\* row has the telnyxCallId
telnyxCallIdFree(id) == callByTelnyxId(id) = {}

callIdFree_NoIndex(callId) == TRUE

\* CREATE UNIQUE INDEX "demo_leads_callId_key": an insert is refused unless no
\* row has the callId
callIdFree(callId) == leadByCallId(callId) = {}

\* include: { demoLead: true }
demoLeadOf(callId) ==
  IF leadByCallId(callId) = {} THEN None
  ELSE Some(leads[CHOOSE i \in leadByCallId(callId) : TRUE])

\* prisma.call.create in onCallInitiated
newCall(payload, at) ==
  [id |-> Len(calls) + 1,
   telnyxCallId |-> payload.id,
   phoneNumber |-> payload.from,
   status |-> "INITIATED",
   callDuration |-> 0,
   recordingUrl |-> None,
   transcriptUrl |-> None,
   startedAt |-> at,
   answeredAt |-> NoTime,
   endedAt |-> NoTime,
   metadata |-> NoData]

\* prisma.demoLead.create in captureLeadFromCall
newLead(callId, callerPhone) ==
  [id |-> Len(leads) + 1,
   callId |-> callId,
   callerPhone |-> callerPhone,
   captured |-> IsSome(callerPhone),
   capturedAt |-> IF IsSome(callerPhone) THEN now ELSE NoTime,
   createdAt |-> now,
   updatedAt |-> now,
   leadScore |-> 0,
   leadQuality |-> NULL,
   interestLevel |-> NULL,
   sentimentScore |-> None,
   questionsAsked |-> <<>>,
   mentionedPricing |-> FALSE,
   mentionedInsurance |-> FALSE,
   mentionedScheduling |-> FALSE,
   qualificationNotes |-> None]

\* { ...call.metadata, ...callData }: a field the event leaves out keeps the
\* value an earlier event stored
mergeMetadata(metadata, callData) ==
  [field \in DOMAIN metadata |->
     IF IsSome(callData[field]) THEN callData[field] ELSE metadata[field]]

\* the object captureAndScoreLead receives from onCallCompleted
scoringCallData(call, payload) ==
  [phone_number |-> call.phoneNumber,
   duration |-> IF IsSome(payload.completion.duration_seconds)
                THEN Val(payload.completion.duration_seconds) ELSE 0,
   transcript |-> payload.completion.transcript,
   sentiment_score |-> payload.completion.sentiment,
   topics_discussed |-> IF IsSome(payload.completion.topics)
                        THEN payload.completion.topics ELSE Some(<<>>)]

\* the argument captureAndScoreLead builds for calculateLeadScore
scoreInput(callData) ==
  [duration |-> callData.duration,
   transcript |-> callData.transcript,
   sentiment |-> callData.sentiment_score,
   topics |-> callData.topics_discussed]

\* the data block shared by demoLead.update and demoLead.create
scoredFields(lead, scoring, callData) ==
  [lead EXCEPT
     !.leadScore = scoring.score,
     !.leadQuality = scoring.quality,
     !.interestLevel = scoring.quality,
     \* an undefined value in a Prisma data block leaves the column as it is
     !.sentimentScore = IF IsSome(callData.sentiment_score)
                        THEN callData.sentiment_score ELSE @,
     !.questionsAsked = Val(callData.topics_discussed),
     !.mentionedPricing = breakdownPositive(scoring.breakdown, "pricing_interest"),
     !.mentionedInsurance = breakdownPositive(scoring.breakdown, "insurance_interest"),
     !.mentionedScheduling = breakdownPositive(scoring.breakdown, "appointment_intent"),
     !.qualificationNotes = Some(JSONstringify(scoring.breakdown)),
     !.updatedAt = now]

dedupMatches_NoWindow(phone) ==
  {i \in 1..Len(leads) : leads[i].callerPhone = phone}

dedupMatches_Exclusive(phone) ==
  {i \in 1..Len(leads) :
     leads[i].callerPhone = phone /\ leads[i].createdAt > now - DEDUP_WINDOW}

\* where: { callerPhone, createdAt: { gte: now - 7 days } }
dedupMatches(phone) ==
  {i \in 1..Len(leads) :
     leads[i].callerPhone = phone /\ leads[i].createdAt >= now - DEDUP_WINDOW}

recentNotification_AnyLead(leadId) ==
  {i \in 1..Len(notificationLogs) :
     /\ notificationLogs[i].sentAt >= now - COOLDOWN
     /\ notificationLogs[i].status = "sent"}

\* where: { leadId, sentAt: { gte: now - 24 h }, status: 'sent' }
recentNotification(leadId) ==
  {i \in 1..Len(notificationLogs) :
     /\ notificationLogs[i].leadId = leadId
     /\ notificationLogs[i].sentAt >= now - COOLDOWN
     /\ notificationLogs[i].status = "sent"}

isQuietHours_Late(hour) == hour > QUIET_START \/ hour < QUIET_END

isQuietHours(hour) == hour >= QUIET_START \/ hour < QUIET_END

shouldSendNotification(leadId) ==
  recentNotification(leadId) = {} /\ ~isQuietHours(getHours(now))

\* the Slack message of sendLeadNotification, as the fields that vary
leadMessage(lead) ==
  [leadId |-> lead.id,
   header |-> IF lead.leadScore >= 75 THEN "HOT LEAD"
              ELSE IF lead.leadScore >= 50 THEN "WARM LEAD" ELSE "COLD LEAD",
   score |-> lead.leadScore,
   quality |-> lead.leadQuality,
   at |-> now]

newNotificationLog(lead) ==
  [leadId |-> lead.id,
   type |-> "slack",
   recipient |-> IF lead.leadScore >= 75 THEN "@channel" ELSE "general",
   status |-> "sent",
   sentAt |-> now,
   deliveredAt |-> now]

\* crypto.timingSafeEqual(expected, provided) after the sha256= prefix is stripped
\* a verification that fails without a configured secret
verifyWebhookSignature_FailClosed(payload, signature) ==
  /\ IsSome(webhookSecret)
  /\ timingSafeEqual(fromHex(toHex(Hmac(Val(webhookSecret), payload))),
                     fromHex(replaceFirst(Val(signature), Sha256Prefix))) = "true"

verifyWebhookSignature(payload, signature) ==
  IF ~IsSome(webhookSecret) THEN TRUE
  ELSE LET expectedSignature == toHex(Hmac(Val(webhookSecret), payload))
           providedSignature == replaceFirst(Val(signature), Sha256Prefix)
       IN  \* a RangeError is caught and verification fails
           timingSafeEqual(fromHex(expectedSignature), fromHex(providedSignature))
             = "true"

\* ------------------------------------------------------------------ actions

Step(t, task) == tasks' = [tasks EXCEPT ![t] = task] /\ UNCHANGED lastOutcome

\* the handler returns: handleWebhookEvent resolves
Return(t) == tasks' = [tasks EXCEPT ![t] = IdleTask] /\ lastOutcome' = "resolved"

\* a callback that puts the event back in the queue when its handler throws
Throw_Requeue(t) ==
  /\ tasks' = [tasks EXCEPT ![t] = [IdleTask EXCEPT !.pc = "queued",
                                                     !.payload = tasks[t].payload,
                                                     !.signature = tasks[t].signature]]
  /\ lastOutcome' = "rejected"

\* the handler throws: the error is logged by the setImmediate callback
Throw(t) == tasks' = [tasks EXCEPT ![t] = IdleTask] /\ lastOutcome' = "rejected"

\* the default branch of handleWebhookEvent logs 'Unhandled event type' and the
\* handler returns
ReturnUnhandled(t) ==
  tasks' = [tasks EXCEPT ![t] = IdleTask] /\ lastOutcome' = "unhandled"

\* handleWebhookEvent throws BadRequestException('Invalid webhook signature')
ThrowBadRequest(t) ==
  tasks' = [tasks EXCEPT ![t] = IdleTask] /\ lastOutcome' = "BadRequestException"

Idle == \A t \in TaskIds : tasks[t].pc = "idle"

\* setImmediate callbacks run in the check phase of the loop iteration that queued
\* them, before the results of later queries are delivered
NoneQueued == \A t \in TaskIds : tasks[t].pc # "queued"

\* the clock advances between handler runs
Tick(d) ==
  /\ Idle
  /\ ticks < MaxTicks
  /\ calls # <<>> /\ received < MaxEvents
  /\ now' = now + d
  /\ ticks' = ticks + 1
  /\ UNCHANGED <<httpVars, configVars, dbVars, taskVars, historyVars, scored,
                 harnessVars>>

\* call ids are interchangeable: a behaviour names them in order of first use
FirstUnusedId ==
  LET used == {calls[i].telnyxCallId[2] : i \in 1..Len(calls)}
              \cup {tasks[t].payload.id[2] : t \in TaskIds}
  IN  CHOOSE n \in 1..(MaxCalls + 1) : n \notin used /\ \A m \in 1..(n - 1) : m \in used

\* @HttpCode(HttpStatus.OK) and the object handleWebhook returns after setImmediate
acknowledgement ==
  [status |-> "200 OK", success |-> TRUE,
   message |-> "Webhook received and queued for processing"]

\* a further request is explored: the bound on requests is not reached, and
\* the handler of the previous request has been dispatched
acceptsRequest ==
  /\ received < MaxEvents
  /\ NoneQueued
  /\ \E t \in TaskIds : tasks[t].pc = "idle"

\* a controller that awaits the verification and answers 400 when it fails
handleWebhook_Awaited(payload, signature) ==
  /\ received < MaxEvents
  /\ NoneQueued
  /\ payload.id[2] <= FirstUnusedId
  /\ received' = received + 1
  /\ IF IsSome(signature) /\ ~verifyWebhookSignature(payload, signature)
     THEN /\ lastResponse' = Some([status |-> "400 Bad Request", success |-> FALSE,
                                   message |-> "Invalid webhook signature"])
          /\ UNCHANGED taskVars
     ELSE /\ lastResponse' = Some(acknowledgement)
          /\ \E t \in TaskIds :
               /\ tasks[t].pc = "idle"
               /\ \A u \in TaskIds : u < t => tasks[u].pc # "idle"
               /\ Step(t, [IdleTask EXCEPT !.pc = "queued", !.payload = payload,
                                           !.signature = signature])
  /\ UNCHANGED <<now, ticks, configVars, dbVars, historyVars, scored,
                 harnessVars>>

\* TelnyxWebhookController.handleWebhook: schedule the handler, acknowledge
handleWebhook(payload, signature) ==
  /\ received < MaxEvents
  /\ NoneQueued
  /\ payload.id[2] <= FirstUnusedId
  /\ \E t \in TaskIds :
       /\ tasks[t].pc = "idle"
       /\ \A u \in TaskIds : u < t => tasks[u].pc # "idle"
       /\ Step(t, [IdleTask EXCEPT !.pc = "queued", !.payload = payload,
                                   !.signature = signature])
  /\ received' = received + 1
  /\ lastResponse' = Some(acknowledgement)
  /\ UNCHANGED <<now, ticks, configVars, dbVars, historyVars, scored,
                 harnessVars>>

\* a switch whose default branch runs the completion handler
firstStep_DefaultCompleted(event_type) ==
  CASE event_type = "call.initiated" -> "call.create"
    [] event_type = "call.answered" -> "answered.update"
    [] event_type = "call.recording.saved" -> "recording.update"
    [] event_type = "call.transcript.ready" -> "transcript.update"
    [] OTHER -> "call.findUnique"

firstStep(event_type) ==
  CASE event_type = "call.initiated" -> "call.create"
    [] event_type = "call.answered" -> "answered.update"
    [] event_type = "call.completed" -> "call.findUnique"
    [] event_type = "call.recording.saved" -> "recording.update"
    [] event_type = "call.transcript.ready" -> "transcript.update"
    [] OTHER -> "unhandled"

\* a dispatcher that verifies the signature but dispatches whatever the result
handleWebhookEvent_NoReject(t) ==
  LET task == tasks[t] IN
  /\ task.pc = "queued"
  /\ IF firstStep(task.payload.event_type) = "unhandled"
     THEN ReturnUnhandled(t)
     ELSE Step(t, [task EXCEPT !.pc = firstStep(task.payload.event_type)])
  /\ UNCHANGED <<now, ticks, httpVars, configVars, dbVars, historyVars, scored,
                 harnessVars>>

\* TelnyxService.handleWebhookEvent up to the handler's first query
handleWebhookEvent(t) ==
  LET task == tasks[t] IN
  /\ task.pc = "queued"
  /\ IF IsSome(task.signature) /\ ~verifyWebhookSignature(task.payload, task.signature)
     THEN ThrowBadRequest(t)
     ELSE IF firstStep(task.payload.event_type) = "unhandled"
          THEN ReturnUnhandled(t)
          ELSE Step(t, [task EXCEPT !.pc = firstStep(task.payload.event_type)])
  /\ UNCHANGED <<now, ticks, httpVars, configVars, dbVars, historyVars, scored,
                 harnessVars>>

\* onCallInitiated: prisma.call.create (telnyxCallId is unique)
onCallInitiated_create(t) ==
  LET task == tasks[t] IN
  /\ task.pc = "call.create"
  /\ NoneQueued
  /\ IF ~telnyxCallIdFree(task.payload.id)
     THEN Throw(t) /\ UNCHANGED calls
     ELSE /\ calls' = Append(calls, newCall(task.payload, now))
          /\ Step(t, [task EXCEPT !.pc = "lead.findUnique",
                                  !.call = Some(newCall(task.payload, now))])
  /\ UNCHANGED <<now, ticks, httpVars, configVars, leads, notificationLogs, historyVars,
                 scored, harnessVars>>

\* captureLeadFromCall: findUnique({ where: { callId } })
captureLeadFromCall_find(t) ==
  LET task == tasks[t] IN
  /\ task.pc = "lead.findUnique"
  /\ NoneQueued
  /\ IF leadByCallId(Val(task.call).id) # {}
     THEN Return(t)
     ELSE Step(t, [task EXCEPT !.pc = "lead.create"])
  /\ UNCHANGED <<now, ticks, httpVars, configVars, dbVars, historyVars, scored,
                 harnessVars>>

\* captureLeadFromCall: demoLead.create (callId is unique)
captureLeadFromCall_create(t) ==
  LET task == tasks[t] IN
  /\ task.pc = "lead.create"
  /\ NoneQueued
  /\ IF ~callIdFree(Val(task.call).id)
     THEN Throw(t) /\ UNCHANGED leads
     ELSE /\ leads' = Append(leads, newLead(Val(task.call).id, task.payload.from))
          /\ Return(t)
  /\ UNCHANGED <<now, ticks, httpVars, configVars, calls, notificationLogs, historyVars,
                 scored, harnessVars>>

\* onCallAnswered: call.update({ where: { telnyxCallId } })
onCallAnswered(t) ==
  LET task == tasks[t] IN
  /\ task.pc = "answered.update"
  /\ NoneQueued
  /\ IF callByTelnyxId(task.payload.id) = {}
     THEN Throw(t) /\ UNCHANGED calls
     ELSE /\ calls' = [i \in 1..Len(calls) |->
                         IF calls[i].telnyxCallId = task.payload.id
                         THEN [calls[i] EXCEPT !.status = "ANSWERED", !.answeredAt = now]
                         ELSE calls[i]]
          /\ Return(t)
  /\ UNCHANGED <<now, ticks, httpVars, configVars, leads, notificationLogs, historyVars,
                 scored, harnessVars>>

\* a recording handler that also stamps the end of the call
onRecordingSaved_StampsEnd(t) ==
  LET task == tasks[t] IN
  /\ task.pc = "recording.update"
  /\ NoneQueued
  /\ IF callByTelnyxId(task.payload.id) = {}
     THEN Throw(t) /\ UNCHANGED calls
     ELSE /\ calls' = [i \in 1..Len(calls) |->
                         IF calls[i].telnyxCallId = task.payload.id
                         THEN [calls[i] EXCEPT !.recordingUrl = Some("recording.mp3"),
                                               !.endedAt = now]
                         ELSE calls[i]]
          /\ Return(t)
  /\ UNCHANGED <<now, ticks, httpVars, configVars, leads, notificationLogs, historyVars,
                 scored, harnessVars>>

\* onRecordingSaved: call.update({ data: { recordingUrl } })
onRecordingSaved(t) ==
  LET task == tasks[t] IN
  /\ task.pc = "recording.update"
  /\ NoneQueued
  /\ IF callByTelnyxId(task.payload.id) = {}
     THEN Throw(t) /\ UNCHANGED calls
     ELSE /\ calls' = [i \in 1..Len(calls) |->
                         IF calls[i].telnyxCallId = task.payload.id
                         THEN [calls[i] EXCEPT !.recordingUrl = Some("recording.mp3")]
                         ELSE calls[i]]
          /\ Return(t)
  /\ UNCHANGED <<now, ticks, httpVars, configVars, leads, notificationLogs, historyVars,
                 scored, harnessVars>>

\* onTranscriptReady: call.update({ data: { transcriptUrl } })
onTranscriptReady(t) ==
  LET task == tasks[t] IN
  /\ task.pc = "transcript.update"
  /\ NoneQueued
  /\ IF callByTelnyxId(task.payload.id) = {}
     THEN Throw(t) /\ UNCHANGED calls
     ELSE /\ calls' = [i \in 1..Len(calls) |->
                         IF calls[i].telnyxCallId = task.payload.id
                         THEN [calls[i] EXCEPT !.transcriptUrl = Some("transcript.txt")]
                         ELSE calls[i]]
          /\ Return(t)
  /\ UNCHANGED <<now, ticks, httpVars, configVars, leads, notificationLogs, historyVars,
                 scored, harnessVars>>

\* onCallCompleted: call.findUnique finds no call for the id
onCallCompleted_notFound(t) ==
  /\ tasks[t].pc = "call.findUnique"
  /\ NoneQueued
  /\ callByTelnyxId(tasks[t].payload.id) = {}
  /\ Return(t)
  /\ UNCHANGED <<now, ticks, httpVars, configVars, dbVars, historyVars, scored,
                 harnessVars>>

\* onCallCompleted: call.findUnique, call.update to COMPLETED, then the scorer when
\* the call has no lead.  Calls are never deleted and the columns read from the row
\* found (id, phoneNumber) never change, so the two queries are taken as one step.
onCallCompleted_update(t) ==
  LET task == tasks[t]
      id == CHOOSE i \in callByTelnyxId(task.payload.id) : TRUE
      callDuration == IF IsSome(task.payload.completion.duration_seconds)
                      THEN Val(task.payload.completion.duration_seconds) ELSE 0
      updatedCall == [calls[id] EXCEPT !.status = "COMPLETED",
                                       !.callDuration = callDuration,
                                       !.endedAt = now,
                                       !.metadata =
                                         mergeMetadata(@, task.payload.completion)]
      callData == scoringCallData(calls[id], task.payload)
      scoring == calculateLeadScore(scoreInput(callData))
  IN
  /\ task.pc = "call.findUnique"
  /\ NoneQueued
  /\ callByTelnyxId(task.payload.id) # {}
  /\ calls' = [calls EXCEPT ![id] = updatedCall]
  /\ IF IsSome(demoLeadOf(id))
     THEN /\ Step(t, [task EXCEPT !.pc = "notificationLog.findFirst",
                                  !.call = Some(updatedCall),
                                  !.lead = demoLeadOf(id)])
          /\ UNCHANGED scored
     ELSE /\ Step(t, [task EXCEPT !.pc = "lead.findFirst",
                                  !.call = Some(updatedCall),
                                  !.scoring = Some(scoring)])
          /\ scored' = Append(scored, <<scoreInput(callData), scoring>>)
  /\ UNCHANGED <<now, ticks, httpVars, configVars, leads, notificationLogs, historyVars,
                 harnessVars>>

\* captureAndScoreLead: demoLead.findFirst inside the 7-day window (no orderBy:
\* any matching row may be returned)
captureAndScoreLead_find(t) ==
  LET task == tasks[t]
      matches == dedupMatches(Val(task.call).phoneNumber)
  IN
  /\ task.pc = "lead.findFirst"
  /\ NoneQueued
  /\ \/ /\ matches = {}
        /\ Step(t, [task EXCEPT !.pc = "lead.write", !.existingLead = None])
     \/ \E i \in matches :
          Step(t, [task EXCEPT !.pc = "lead.write", !.existingLead = Some(i)])
  /\ UNCHANGED <<now, ticks, httpVars, configVars, dbVars, historyVars, scored,
                 harnessVars>>

\* a write inside a serializable transaction with the lookup: the create fails
\* when a lead for the phone has appeared in the window since the lookup
captureAndScoreLead_write_Guarded(t) ==
  LET task == tasks[t]
      call == Val(task.call)
      callData == scoringCallData(call, task.payload)
      scoring == Val(task.scoring)
      created == scoredFields([newLead(call.id, callData.phone_number)
                                 EXCEPT !.captured = TRUE, !.capturedAt = now],
                              scoring, callData)
  IN
  /\ task.pc = "lead.write"
  /\ NoneQueued
  /\ IF IsSome(task.existingLead)
     THEN LET id == Val(task.existingLead)
              updated == scoredFields(leads[id], scoring, callData)
          IN  /\ leads' = [leads EXCEPT ![id] = updated]
              /\ Step(t, [task EXCEPT !.pc = "notificationLog.findFirst",
                                      !.lead = Some(updated)])
     ELSE IF ~callIdFree(call.id) \/ dedupMatches(call.phoneNumber) # {}
          THEN Throw(t) /\ UNCHANGED leads
          ELSE /\ leads' = Append(leads, created)
               /\ Step(t, [task EXCEPT !.pc = "notificationLog.findFirst",
                                       !.lead = Some(created)])
  /\ UNCHANGED <<now, ticks, httpVars, configVars, calls, notificationLogs, historyVars,
                 scored, harnessVars>>

\* captureAndScoreLead: demoLead.update of the duplicate, or demoLead.create
captureAndScoreLead_write(t) ==
  LET task == tasks[t]
      call == Val(task.call)
      callData == scoringCallData(call, task.payload)
      scoring == Val(task.scoring)
      created == scoredFields([newLead(call.id, callData.phone_number)
                                 EXCEPT !.captured = TRUE, !.capturedAt = now],
                              scoring, callData)
  IN
  /\ task.pc = "lead.write"
  /\ NoneQueued
  /\ IF IsSome(task.existingLead)
     THEN LET id == Val(task.existingLead)
              updated == scoredFields(leads[id], scoring, callData)
          IN  /\ leads' = [leads EXCEPT ![id] = updated]
              /\ Step(t, [task EXCEPT !.pc = "notificationLog.findFirst",
                                      !.lead = Some(updated)])
     ELSE IF ~callIdFree(call.id)
          THEN Throw(t) /\ UNCHANGED leads
          ELSE /\ leads' = Append(leads, created)
               /\ Step(t, [task EXCEPT !.pc = "notificationLog.findFirst",
                                       !.lead = Some(created)])
  /\ UNCHANGED <<now, ticks, httpVars, configVars, calls, notificationLogs, historyVars,
                 scored, harnessVars>>

\* a completion handler that sends whatever the gate answers
onCallCompleted_gate_Deferred(t) ==
  LET task == tasks[t]
      shouldNotify == shouldSendNotification(Val(task.lead).id)
  IN
  /\ task.pc = "notificationLog.findFirst"
  /\ NoneQueued
  /\ lastGate' = Some([leadId |-> Val(task.lead).id, at |-> now,
                       result |-> shouldNotify])
  /\ IF slackConfigured
     THEN Step(t, [task EXCEPT !.pc = "slack.send"])
     ELSE Return(t)
  /\ UNCHANGED <<now, ticks, httpVars, configVars, dbVars, slackSent, scored,
                 harnessVars>>

\* onCallCompleted: shouldSendNotification(lead.id), then sendLeadNotification up to
\* its first await (it returns at once when no Slack webhook is configured)
onCallCompleted_gate(t) ==
  LET task == tasks[t]
      shouldNotify == shouldSendNotification(Val(task.lead).id)
  IN
  /\ task.pc = "notificationLog.findFirst"
  /\ NoneQueued
  /\ lastGate' = Some([leadId |-> Val(task.lead).id, at |-> now,
                       result |-> shouldNotify])
  /\ IF shouldNotify /\ slackConfigured
     THEN Step(t, [task EXCEPT !.pc = "slack.send"])
     ELSE Return(t)
  /\ UNCHANGED <<now, ticks, httpVars, configVars, dbVars, slackSent, scored,
                 harnessVars>>

\* sendLeadNotification: slackWebhook.send(message) delivers the message
sendLeadNotification_send(t) ==
  LET task == tasks[t] IN
  /\ task.pc = "slack.send"
  /\ NoneQueued
  /\ slackSent' = Append(slackSent, leadMessage(Val(task.lead)))
  /\ Step(t, [task EXCEPT !.pc = "notificationLog.create"])
  /\ UNCHANGED <<now, ticks, httpVars, configVars, dbVars, lastGate, scored,
                 harnessVars>>

\* sendLeadNotification: slackWebhook.send(message) rejects
sendLeadNotification_fail(t) ==
  /\ tasks[t].pc = "slack.send"
  /\ NoneQueued
  /\ Throw(t)
  /\ UNCHANGED <<now, ticks, httpVars, configVars, dbVars, historyVars, scored,
                 harnessVars>>

\* sendLeadNotification: notificationLog.create({ status: 'sent' })
sendLeadNotification_log(t) ==
  LET task == tasks[t] IN
  /\ task.pc = "notificationLog.create"
  /\ NoneQueued
  /\ notificationLogs' = Append(notificationLogs, newNotificationLog(Val(task.lead)))
  /\ Return(t)
  /\ UNCHANGED <<now, ticks, httpVars, configVars, calls, leads, historyVars, scored,
                 harnessVars>>

\* ------------------------------------------------------------ specification

Init ==
  /\ now \in StartHours
  /\ ticks = 0
  /\ received = 0
  /\ lastResponse = None
  /\ lastOutcome = "none"
  /\ \E d \in Deployments :
       /\ traffic = d.traffic
       /\ webhookSecret = d.webhookSecret
       /\ slackConfigured = d.slackConfigured
  /\ calls = <<>>
  /\ leads = <<>>
  /\ notificationLogs = <<>>
  /\ tasks = [t \in 1..MaxInFlight |-> IdleTask]
  /\ slackSent = <<>>
  /\ lastGate = None
  /\ scored = <<>>
  /\ scoreIn = None
  /\ scoreOut = None
  /\ verifyIn = None
  /\ verifyOut = None

Next ==
  \/ \E d \in TickSteps : Tick(d)
  \/ /\ acceptsRequest
     /\ \E payload \in Payloads(traffic) :
          \E signature \in TrafficSignatures(traffic, payload) :
            handleWebhook(payload, signature)
  \/ \E t \in TaskIds : handleWebhookEvent(t)
  \/ \E t \in TaskIds : onCallInitiated_create(t)
  \/ \E t \in TaskIds : captureLeadFromCall_find(t)
  \/ \E t \in TaskIds : captureLeadFromCall_create(t)
  \/ \E t \in TaskIds : onCallAnswered(t)
  \/ \E t \in TaskIds : onCallCompleted_notFound(t)
  \/ \E t \in TaskIds : onCallCompleted_update(t)
  \/ \E t \in TaskIds : captureAndScoreLead_find(t)
  \/ \E t \in TaskIds : captureAndScoreLead_write(t)
  \/ \E t \in TaskIds : onCallCompleted_gate(t)
  \/ \E t \in TaskIds : sendLeadNotification_send(t)
  \/ \E t \in TaskIds : sendLeadNotification_fail(t)
  \/ \E t \in TaskIds : sendLeadNotification_log(t)
  \/ \E t \in TaskIds : onRecordingSaved(t)
  \/ \E t \in TaskIds : onTranscriptReady(t)

Spec == Init /\ [][Next]_vars

\* ---------------------------------------------------------- scorer harness

RECURSIVE SeqsUpTo(_, _)
SeqsUpTo(S, n) ==
  IF n = 0 THEN {<<>>}
  ELSE LET shorter == SeqsUpTo(S, n - 1)
       IN  shorter \cup {Append(q, x) : q \in shorter, x \in S}

TranscriptTokens == {"COST", "how", "much", "Schedule", "?"}

ScoreDurations == {-10, 0, 10, 180, 181, 300, 600}
ScoreSentiments == {None} \cup {Some(k) : k \in {-500, 0, 100, 125, 900, 1000, 1500}}
ScoreTopics ==
  {None, Some(<<>>), Some(<<"pricing">>), Some(<<"insurance", "scheduling">>),
   Some(<<"pricing", "insurance", "scheduling">>), Some(<<"braces">>)}
ScoreTranscripts ==
  {None, HotCall.transcript, Some(<<"Do", "you", "take", "Insurance", "?">>)}
  \cup {Some(q) : q \in SeqsUpTo(TranscriptTokens, MaxTranscriptLen)}

ScoreInputs ==
  [duration : ScoreDurations, transcript : ScoreTranscripts,
   sentiment : ScoreSentiments, topics : ScoreTopics]

\* one invocation of LeadsService.calculateLeadScore on the input drawn
invokeCalculateLeadScore ==
  /\ IsSome(scoreIn) /\ scoreOut = None
  /\ scoreOut' = Some(calculateLeadScore(Val(scoreIn)))
  /\ UNCHANGED <<now, ticks, httpVars, configVars, dbVars, taskVars, historyVars, scored,
                 scoreIn, verifyIn, verifyOut>>

InitScore ==
  /\ now \in StartHours
  /\ ticks = 0
  /\ received = 0
  /\ lastResponse = None
  /\ lastOutcome = "none"
  /\ traffic = "lifecycle"
  /\ webhookSecret = None
  /\ slackConfigured = TRUE
  /\ calls = <<>>
  /\ leads = <<>>
  /\ notificationLogs = <<>>
  /\ tasks = [t \in 1..MaxInFlight |-> IdleTask]
  /\ slackSent = <<>>
  /\ lastGate = None
  /\ scored = <<>>
  /\ scoreIn \in {Some(callData) : callData \in ScoreInputs}
  /\ scoreOut = None
  /\ verifyIn = None
  /\ verifyOut = None

NextScore == invokeCalculateLeadScore

SpecScore == InitScore /\ [][NextScore]_vars

\* ------------------------------------------------------- signature harness

\* the characters a single position of a signature header is replaced by
SubstituteChars == {"0", "7", "a", "A", "c", "C", "f", "g", "s", "="}

\* the strings that differ from str at exactly one position
Substitutions(str) ==
  {[str EXCEPT ![i] = c] : i \in 1..Len(str), c \in SubstituteChars} \ {str}

VerifyPayloads == Payloads("every type")

\* the headers that match a payload under the configured secret
MatchingSignatures(payload) ==
  {toHex(Hmac(ConfiguredSecret, payload)),
   Sha256Prefix \o toHex(Hmac(ConfiguredSecret, payload))}

\* a payload with a matching header, with a matching header changed at one
\* position, or with the header that matches another payload
VerifyInputs ==
  UNION {{[payload |-> p, signature |-> sig] :
            sig \in UNION {MatchingSignatures(q) : q \in VerifyPayloads}
                    \cup UNION {Substitutions(m) : m \in MatchingSignatures(p)}} :
         p \in VerifyPayloads}

\* one invocation of TelnyxService.verifyWebhookSignature on the input drawn
invokeVerifyWebhookSignature ==
  /\ IsSome(verifyIn) /\ verifyOut = None
  /\ verifyOut' = Some(verifyWebhookSignature(Val(verifyIn).payload,
                                               Some(Val(verifyIn).signature)))
  /\ UNCHANGED <<now, ticks, httpVars, configVars, dbVars, taskVars, historyVars,
                 scored, scoreIn, scoreOut, verifyIn>>

InitVerify ==
  /\ now \in StartHours
  /\ ticks = 0
  /\ received = 0
  /\ lastResponse = None
  /\ lastOutcome = "none"
  /\ traffic = "every type"
  /\ webhookSecret \in {None, Some(ConfiguredSecret)}
  /\ slackConfigured = TRUE
  /\ calls = <<>>
  /\ leads = <<>>
  /\ notificationLogs = <<>>
  /\ tasks = [t \in 1..MaxInFlight |-> IdleTask]
  /\ slackSent = <<>>
  /\ lastGate = None
  /\ scored = <<>>
  /\ scoreIn = None
  /\ scoreOut = None
  /\ verifyIn \in {Some(in) : in \in VerifyInputs}
  /\ verifyOut = None

NextVerify == invokeVerifyWebhookSignature

SpecVerify == InitVerify /\ [][NextVerify]_vars

\* ------------------------------------------------- notification gate harness

\* the gate is exercised on a database two completed calls have left behind:
\* each call has the lead created at call.initiated, and earlier completion
\* events of either call have left up to two notification log rows
GateHistory == 72
GateHours == GateHistory..(GateHistory + 23)
LogAges == {0, 1, 23, 24, 25, 48}

pastCall(i, at, lastCompleted) ==
  [id |-> i,
   telnyxCallId |-> TelnyxId(i),
   phoneNumber |-> Some(CHOOSE p \in CallerPhones : TRUE),
   status |-> "COMPLETED",
   callDuration |-> Val(WarmCall.duration_seconds),
   recordingUrl |-> None,
   transcriptUrl |-> None,
   startedAt |-> at,
   answeredAt |-> NoTime,
   endedAt |-> lastCompleted,
   metadata |-> WarmCall]

pastLead(i, at) ==
  [id |-> i,
   callId |-> i,
   callerPhone |-> Some(CHOOSE p \in CallerPhones : TRUE),
   captured |-> TRUE,
   capturedAt |-> at,
   createdAt |-> at,
   updatedAt |-> at,
   leadScore |-> 0,
   leadQuality |-> NULL,
   interestLevel |-> NULL,
   sentimentScore |-> None,
   questionsAsked |-> <<>>,
   mentionedPricing |-> FALSE,
   mentionedInsurance |-> FALSE,
   mentionedScheduling |-> FALSE,
   qualificationNotes |-> None]

pastLog(leadId, at) ==
  [leadId |-> leadId, type |-> "slack", recipient |-> "general", status |-> "sent",
   sentAt |-> at, deliveredAt |-> at]

pastMessage(log) ==
  [leadId |-> log.leadId, header |-> "COLD LEAD", score |-> 0, quality |-> NULL,
   at |-> log.sentAt]

\* the log rows at time t: none, one, or two in the order they were appended,
\* each sent at an hour at which the gate lets a notification through
PastLogs(t) ==
  LET sendable == {a \in LogAges : getHours(t - a) \in 8..21}
      one == {<<pastLog(l, t - a)>> : l \in 1..MaxCalls, a \in sendable}
      two == {<<pastLog(1, t - a), pastLog(l, t - b)>> :
                l \in 1..MaxCalls,
                a \in {x \in sendable : x >= 25},
                b \in {x \in sendable : x <= 24}}
  IN  {<<>>} \cup one \cup two

lastCompletion(i, logs, at) ==
  LET sent == {logs[k].sentAt : k \in {n \in 1..Len(logs) : logs[n].leadId = i}}
  IN  IF sent = {} THEN at ELSE CHOOSE m \in sent : \A x \in sent : x <= m

InitGate ==
  /\ now \in GateHours
  /\ ticks = 0
  /\ received = MaxEvents - 1
  /\ lastResponse = Some(acknowledgement)
  /\ lastOutcome = "resolved"
  /\ traffic = "lifecycle"
  /\ webhookSecret = None
  /\ slackConfigured = TRUE
  /\ notificationLogs \in PastLogs(now)
  /\ calls = [i \in 1..MaxCalls |->
                pastCall(i, now - GateHistory,
                         lastCompletion(i, notificationLogs, now - GateHistory))]
  /\ leads = [i \in 1..MaxCalls |-> pastLead(i, now - GateHistory)]
  /\ tasks = [t \in 1..MaxInFlight |-> IdleTask]
  /\ slackSent = [k \in 1..Len(notificationLogs) |-> pastMessage(notificationLogs[k])]
  /\ lastGate = None
  /\ scored = <<>>
  /\ scoreIn = None
  /\ scoreOut = None
  /\ verifyIn = None
  /\ verifyOut = None

\* a further call.completed event for one of the two calls
NextGate ==
  \/ /\ acceptsRequest
     /\ \E payload \in Payloads(traffic) :
          \E signature \in TrafficSignatures(traffic, payload) :
            payload.event_type = "call.completed" /\ handleWebhook(payload, signature)
  \/ \E t \in TaskIds : handleWebhookEvent(t)
  \/ \E t \in TaskIds : onCallCompleted_update(t)
  \/ \E t \in TaskIds : onCallCompleted_gate(t)
  \/ \E t \in TaskIds : sendLeadNotification_send(t)
  \/ \E t \in TaskIds : sendLeadNotification_fail(t)
  \/ \E t \in TaskIds : sendLeadNotification_log(t)

SpecGate == InitGate /\ [][NextGate]_vars

\* ------------------------------------------------------------ dedup harness

\* captureAndScoreLead is exercised on the database an earlier call has left
\* behind: the earlier call's lead is LeadAge hours old, and a second call has
\* just been created by onCallInitiated, whose captureLeadFromCall is still to
\* run when the call.completed event of the second call arrives
LeadAges == {0, 1, 7 * 24 - 1, 7 * 24, 7 * 24 + 1, 8 * 24}
DedupStart == 8 * 24

InsuranceCall ==
  [duration_seconds |-> Some(45),
   transcript |-> Some(<<"Do", "you", "take", "Insurance", "?">>),
   sentiment |-> Some(500), topics |-> None]
SchedulingCall ==
  [duration_seconds |-> Some(200), transcript |-> None, sentiment |-> None,
   topics |-> Some(<<"scheduling">>)]
DedupCompletions == {ColdCall, WarmCall, HotCall, InsuranceCall, SchedulingCall}

DedupPayloads ==
  {Payload("call.completed", TelnyxId(MaxCalls), None, c) : c \in DedupCompletions}

\* the call onCallInitiated has just created
freshCall(i, from, at) ==
  [pastCall(i, at, NoTime) EXCEPT !.phoneNumber = from, !.status = "INITIATED",
                                  !.callDuration = 0, !.metadata = NoData]

\* the invocation of calculateLeadScore that scored a lead with HotCall
hotInput ==
  [duration |-> Val(HotCall.duration_seconds), transcript |-> HotCall.transcript,
   sentiment |-> HotCall.sentiment, topics |-> HotCall.topics]

\* the earlier call's lead: as captureLeadFromCall created it, or as
\* captureAndScoreLead wrote it for HotCall
PastLeads(at) ==
  LET hot == calculateLeadScore(hotInput) IN
  {pastLead(1, at),
   [pastLead(1, at) EXCEPT
      !.leadScore = hot.score,
      !.leadQuality = hot.quality,
      !.interestLevel = hot.quality,
      !.sentimentScore = HotCall.sentiment,
      !.questionsAsked = Val(HotCall.topics),
      !.mentionedPricing = TRUE,
      !.mentionedInsurance = TRUE,
      !.mentionedScheduling = TRUE,
      !.qualificationNotes = Some(JSONstringify(hot.breakdown))]}

InitDedup ==
  /\ now \in {DedupStart + h : h \in StartHours}
  /\ ticks = 0
  /\ received = MaxEvents - 1
  /\ lastResponse = Some(acknowledgement)
  /\ lastOutcome = "resolved"
  /\ traffic = "lifecycle"
  /\ webhookSecret = None
  /\ slackConfigured = TRUE
  /\ notificationLogs = <<>>
  /\ \E age \in LeadAges, from \in {None} \cup {Some(p) : p \in CallerPhones} :
       /\ leads \in {<<l>> : l \in PastLeads(now - age)}
       /\ calls = <<IF leads[1].leadQuality = NULL
                    THEN pastCall(1, now - age, now - age)
                    ELSE [pastCall(1, now - age, now - age) EXCEPT
                            !.callDuration = Val(HotCall.duration_seconds),
                            !.metadata = HotCall],
                    freshCall(MaxCalls, from, now)>>
       /\ tasks = [t \in 1..MaxInFlight |->
                     IF t = 1
                     THEN [IdleTask EXCEPT
                             !.pc = "lead.findUnique",
                             !.payload = Payload("call.initiated", TelnyxId(MaxCalls),
                                                 from, NoData),
                             !.call = Some(freshCall(MaxCalls, from, now))]
                     ELSE IdleTask]
  /\ slackSent = <<>>
  /\ lastGate = None
  /\ scored = IF leads[1].leadQuality = NULL THEN <<>>
              ELSE <<<<hotInput, calculateLeadScore(hotInput)>>>>
  /\ scoreIn = None
  /\ scoreOut = None
  /\ verifyIn = None
  /\ verifyOut = None

\* the call.completed event of the second call, and the two handlers
NextDedup ==
  \/ /\ acceptsRequest
     /\ \E payload \in DedupPayloads : handleWebhook(payload, NoSignature)
  \/ \E t \in TaskIds : handleWebhookEvent(t)
  \/ \E t \in TaskIds : captureLeadFromCall_find(t)
  \/ \E t \in TaskIds : captureLeadFromCall_create(t)
  \/ \E t \in TaskIds : onCallCompleted_update(t)
  \/ \E t \in TaskIds : captureAndScoreLead_find(t)
  \/ \E t \in TaskIds : captureAndScoreLead_write(t)
  \/ \E t \in TaskIds : onCallCompleted_gate(t)
  \/ \E t \in TaskIds : sendLeadNotification_send(t)
  \/ \E t \in TaskIds : sendLeadNotification_fail(t)
  \/ \E t \in TaskIds : sendLeadNotification_log(t)

SpecDedup == InitDedup /\ [][NextDedup]_vars

\* ------------------------------------------------------------- race harness

\* two calls from one phone number have started and ended within the hour: the
\* four webhook requests have been received and their handlers are in flight
\* together.  Both call.initiated handlers have created their call and are about
\* to look for its lead; the first call.completed handler has been dispatched
\* and the second is queued.  Either the phone number is new, or an earlier call
\* has left a lead for it inside the dedup window.
MaxRacing == 4
RaceLeadAge == 24

racingInitiated(i, from) ==
  [IdleTask EXCEPT !.pc = "lead.findUnique",
                   !.payload = Payload("call.initiated", TelnyxId(i), from, NoData),
                   !.call = Some(freshCall(i, from, now))]

racingCompleted(i, pc, completion) ==
  [IdleTask EXCEPT !.pc = pc,
                   !.payload = Payload("call.completed", TelnyxId(i), None, completion)]

InitRace ==
  /\ now \in {DedupStart + h : h \in StartHours}
  /\ ticks = 0
  /\ received = MaxEvents
  /\ lastResponse = Some(acknowledgement)
  /\ traffic = "lifecycle"
  /\ webhookSecret = None
  /\ slackConfigured = TRUE
  /\ notificationLogs = <<>>
  /\ \E prior \in BOOLEAN, first \in Completions, second \in Completions :
       LET from == Some(CHOOSE p \in CallerPhones : TRUE)
           a == IF prior THEN 2 ELSE 1
           b == a + 1
       IN
       /\ lastOutcome = IF prior THEN "resolved" ELSE "none"
       /\ leads = IF prior THEN <<pastLead(1, now - RaceLeadAge)>> ELSE <<>>
       /\ calls = (IF prior
                   THEN <<pastCall(1, now - RaceLeadAge, now - RaceLeadAge)>>
                   ELSE <<>>)
                  \o <<freshCall(a, from, now), freshCall(b, from, now)>>
       /\ tasks = [t \in 1..MaxRacing |->
                     CASE t = 1 -> racingInitiated(a, from)
                       [] t = 2 -> racingInitiated(b, from)
                       [] t = 3 -> racingCompleted(a, "call.findUnique", first)
                       [] t = 4 -> racingCompleted(b, "queued", second)
                       [] OTHER -> IdleTask]
  /\ slackSent = <<>>
  /\ lastGate = None
  /\ scored = <<>>
  /\ scoreIn = None
  /\ scoreOut = None
  /\ verifyIn = None
  /\ verifyOut = None

\* the four handlers run to their ends
NextRace ==
  \/ \E t \in TaskIds : handleWebhookEvent(t)
  \/ \E t \in TaskIds : captureLeadFromCall_find(t)
  \/ \E t \in TaskIds : captureLeadFromCall_create(t)
  \/ \E t \in TaskIds : onCallCompleted_update(t)
  \/ \E t \in TaskIds : captureAndScoreLead_find(t)
  \/ \E t \in TaskIds : captureAndScoreLead_write(t)
  \/ \E t \in TaskIds : onCallCompleted_gate(t)
  \/ \E t \in TaskIds : sendLeadNotification_send(t)
  \/ \E t \in TaskIds : sendLeadNotification_fail(t)
  \/ \E t \in TaskIds : sendLeadNotification_log(t)

SpecRace == InitRace /\ [][NextRace]_vars

\* --------------------------------------------------------- override harness

\* enum LeadInterest
LeadInterests == {"HOT", "WARM", "COLD", "UNQUALIFIED"}

\* a PATCH handler that files the tier under leadQuality as well
updateLeadInterest_SetsQuality(leadId, interest) ==
  /\ IF leadId \in 1..Len(leads)
     THEN /\ leads' = [leads EXCEPT ![leadId].interestLevel = interest,
                                    ![leadId].leadQuality = interest,
                                    ![leadId].updatedAt = now]
          /\ lastResponse' = Some([status |-> "200 OK", lead |-> leadId])
     ELSE /\ UNCHANGED leads
          /\ lastResponse' = Some([status |-> "404 Not Found", lead |-> leadId])
  /\ UNCHANGED <<now, ticks, received, configVars, calls, notificationLogs, taskVars,
                 historyVars, scored, harnessVars>>

\* PATCH .../leads/:id and LeadsService.updateLeadInterest: one demoLead.update
\* with data { interestLevel }, which also stamps the row's updatedAt; an unknown
\* id (Prisma P2025) is answered with NotFoundException
updateLeadInterest(leadId, interest) ==
  /\ IF leadId \in 1..Len(leads)
     THEN /\ leads' = [leads EXCEPT ![leadId].interestLevel = interest,
                                    ![leadId].updatedAt = now]
          /\ lastResponse' = Some([status |-> "200 OK", lead |-> leadId])
     ELSE /\ UNCHANGED leads
          /\ lastResponse' = Some([status |-> "404 Not Found", lead |-> leadId])
  /\ UNCHANGED <<now, ticks, received, configVars, calls, notificationLogs, taskVars,
                 historyVars, scored, harnessVars>>

\* the dashboard overrides tiers while the second call of the dedup harness
\* ends; the earlier lead is an hour old, or older than the dedup window
OverrideLeadAges == {1, 8 * 24}

InitOverride ==
  /\ InitDedup
  /\ now - leads[1].createdAt \in OverrideLeadAges

NextOverride ==
  \/ NextDedup
  \/ \E leadId \in 1..(Len(leads) + 1), interest \in LeadInterests :
       updateLeadInterest(leadId, interest)

SpecOverride == InitOverride /\ [][NextOverride]_vars

\* ------------------------------------------------------- claims: the scorer

ValidScoreInput(callData) ==
  /\ callData.duration >= 0
  /\ IsSome(callData.sentiment) =>
       Val(callData.sentiment) >= 0 /\ Val(callData.sentiment) <= 1000

RawScore(callData) ==
  LET text == toLowerCase(callData.transcript)
      topics == IF IsSome(callData.topics) THEN Val(callData.topics) ELSE <<>>
      D == Min(callData.duration \div 10, 30)
      P == IF pricingRule(text, topics) THEN 20 ELSE 0
      I == IF insuranceRule(text, topics) THEN 15 ELSE 0
      S == IF schedulingRule(text, topics) THEN 25 ELSE 0
      \* round(x) for x = sentiment * 20: the integer nearest to x, halves upwards
      T == IF IsSome(callData.sentiment)
           THEN CHOOSE r \in -20..40 :
                  /\ 2 * 1000 * r <= 2 * 20 * Val(callData.sentiment) + 1000
                  /\ 2 * 20 * Val(callData.sentiment) + 1000 < 2 * 1000 * (r + 1)
           ELSE 0
      E == IF Cardinality({i \in DOMAIN text : text[i] = "?"}) >= 3 THEN 10 ELSE 0
      L == IF callData.duration > 180 THEN 10 ELSE 0
  IN  D + P + I + S + T + E + L

\* C2: for every input with duration >= 0 and sentiment absent or in [0,1],
\* calculateLeadScore returns an integer score with 0 <= score <= 100
C2_ScoreInRange ==
  IsSome(scoreOut) /\ ValidScoreInput(Val(scoreIn)) => Val(scoreOut).score \in 0..100

\* a valid input whose summed rules exceed 100 and whose score is capped to 100
C2_Witness ==
  /\ IsSome(scoreOut) /\ ValidScoreInput(Val(scoreIn))
  /\ RawScore(Val(scoreIn)) > 100
  /\ Val(scoreOut).score = 100

\* C3: the quality is a function of the score alone: HOT exactly when score >= 75,
\* WARM exactly when 50 <= score <= 74, COLD exactly when score <= 49
C3_QualityTiers ==
  IsSome(scoreOut) =>
    LET r == Val(scoreOut) IN
    /\ r.quality \in {"HOT", "WARM", "COLD"}
    /\ r.quality = "HOT" <=> r.score >= 75
    /\ r.quality = "WARM" <=> (50 <= r.score /\ r.score <= 74)
    /\ r.quality = "COLD" <=> r.score <= 49

\* a score exactly on the HOT boundary
C3_Witness == IsSome(scoreOut) /\ Val(scoreOut).score = 75 /\ Val(scoreOut).quality = "HOT"

\* C4: the score is min(100, D + P + I + S + T + E + L); the all-absent input with
\* duration 0 scores 0/COLD and an input whose raw sum is 128 scores 100/HOT
C4_ScoreFormula ==
  IsSome(scoreOut) =>
    LET in == Val(scoreIn)
        r == Val(scoreOut)
    IN  /\ r.score = Min(100, RawScore(in))
        /\ (in.duration = 0 /\ in.transcript = None /\ in.sentiment = None
            /\ in.topics \in {None, Some(<<>>)})
           => r.score = 0 /\ r.quality = "COLD"
        /\ RawScore(in) = 128 => r.score = 100 /\ r.quality = "HOT"

\* the example of the specification: 600 s, the four-question transcript, sentiment
\* 0.9 and all three topics sum to 128
C4_Witness ==
  /\ scoreIn = Some([duration |-> 600, transcript |-> HotCall.transcript,
                     sentiment |-> Some(900), topics |-> HotCall.topics])
  /\ IsSome(scoreOut)
  /\ RawScore(Val(scoreIn)) = 128
  /\ Val(scoreOut).score = 100

\* --------------------------------------------- claims: the webhook lifecycle

\* what calculateLeadScore returns for the data of a call's completion event;
\* a call whose metadata is one of Completions last completed with that data
completionScore(call) ==
  calculateLeadScore(
    [duration |-> call.callDuration,
     transcript |-> call.metadata.transcript,
     sentiment |-> call.metadata.sentiment,
     topics |-> IF IsSome(call.metadata.topics) THEN call.metadata.topics
                ELSE Some(<<>>)])

\* C1: once call.initiated and then call.completed have been handled for a call,
\* the lead attached to the call carries the score and quality that
\* calculateLeadScore gives for the completion event's data
C1_ScoredOnCompletion ==
  \A i \in 1..Len(calls) :
    calls[i].status = "COMPLETED" /\ calls[i].metadata \in Completions /\ Idle =>
      \E l \in leadByCallId(i) :
        /\ leads[l].leadScore = completionScore(calls[i]).score
        /\ leads[l].leadQuality = completionScore(calls[i]).quality

SamePhoneCompleted(i, j, apart) ==
  /\ i # j
  /\ IsSome(calls[i].phoneNumber)
  /\ calls[i].phoneNumber = calls[j].phoneNumber
  /\ calls[i].status = "COMPLETED"
  /\ calls[j].status = "COMPLETED"
  /\ calls[j].endedAt = calls[i].endedAt + apart
  /\ calls[j].metadata \in Completions
  /\ Idle

\* C6: two calls from one phone number, initiated and completed 2 days apart,
\* leave exactly one lead for that number, with the score and the flags of the
\* second call
C6_OneLeadWithinWindow ==
  \A i, j \in 1..Len(calls) :
    SamePhoneCompleted(i, j, 2 * 24) =>
      LET rows == {l \in 1..Len(leads) : leads[l].callerPhone = calls[j].phoneNumber}
          second == completionScore(calls[j])
      IN  /\ Cardinality(rows) = 1
          /\ \A l \in rows :
               /\ leads[l].leadScore = second.score
               /\ leads[l].mentionedPricing
                    = breakdownPositive(second.breakdown, "pricing_interest")
               /\ leads[l].mentionedInsurance
                    = breakdownPositive(second.breakdown, "insurance_interest")
               /\ leads[l].mentionedScheduling
                    = breakdownPositive(second.breakdown, "appointment_intent")

\* C7: two calls from one phone number completed 8 days apart have two separate
\* leads, and no handler step changes a lead created 8 days or more before
C7_SeparateLeadsBeyondWindow ==
  /\ [](\A i, j \in 1..Len(calls) :
          SamePhoneCompleted(i, j, 8 * 24) =>
            /\ leadByCallId(i) # {}
            /\ leadByCallId(j) # {}
            /\ leadByCallId(i) \cap leadByCallId(j) = {})
  /\ [][tasks' # tasks =>
          \A l \in 1..Len(leads) :
            leads[l].createdAt + 8 * 24 <= now => leads'[l] = leads[l]]_vars

\* both calls are completed 8 days apart, each has its lead, and the first
\* call's lead was last written before the second call started
C7_Witness ==
  \E i, j \in 1..Len(calls) :
    /\ SamePhoneCompleted(i, j, 8 * 24)
    /\ \E a \in leadByCallId(i), b \in leadByCallId(j) :
         /\ a # b
         /\ leads[a].updatedAt < calls[j].startedAt
         /\ leads[b].createdAt >= calls[j].startedAt

\* --------------------------------------------------- claims: the gate

\* the step in which onCallCompleted evaluates shouldSendNotification for a lead
GateStep(t) ==
  /\ tasks[t].pc = "notificationLog.findFirst"
  /\ tasks'[t].pc # "notificationLog.findFirst"

\* the ages, in hours, of the 'sent' log rows of a lead
SentAges(leadId) ==
  {now - notificationLogs[k].sentAt :
     k \in {n \in 1..Len(notificationLogs) :
              /\ notificationLogs[n].leadId = leadId
              /\ notificationLogs[n].status = "sent"}}

\* C8: shouldSendNotification(leadId) is false whenever the lead has a 'sent'
\* log less than 24 hours old; with no 'sent' log of the lead, or only ones
\* more than 24 hours old, it is true at the hours 8..21
C8_Cooldown ==
  [][\A t \in TaskIds :
       GateStep(t) =>
         LET leadId == Val(tasks[t].lead).id IN
         /\ (\E a \in SentAges(leadId) : a >= 0 /\ a < 24)
              => /\ lastGate' = Some([leadId |-> leadId, at |-> now, result |-> FALSE])
                 /\ tasks'[t].pc = "idle"
         /\ ((\A a \in SentAges(leadId) : a > 24) /\ getHours(now) \in 8..21)
              => /\ lastGate' = Some([leadId |-> leadId, at |-> now, result |-> TRUE])
                 /\ tasks'[t].pc = "slack.send"]_vars

\* the gate has answered false for a lead notified an hour ago, at an hour
\* outside the quiet window
C8_Witness ==
  /\ IsSome(lastGate)
  /\ Val(lastGate).at = now
  /\ Val(lastGate).result = FALSE
  /\ getHours(now) \in 8..21
  /\ \E k \in 1..Len(notificationLogs) :
       /\ notificationLogs[k].leadId = Val(lastGate).leadId
       /\ notificationLogs[k].sentAt = now - 1

\* C9: shouldSendNotification is false at every hour h >= 22 or h < 8, also for
\* a lead without any notification log, and with no log in the last 24 hours
\* it is true at every hour 8 <= h <= 21
C9_QuietHours ==
  [][\A t \in TaskIds :
       GateStep(t) =>
         LET leadId == Val(tasks[t].lead).id
             h == getHours(now)
         IN
         /\ (h >= 22 \/ h < 8) => /\ Val(lastGate').result = FALSE
                                  /\ tasks'[t].pc = "idle"
         /\ (h >= 8 /\ h <= 21 /\ SentAges(leadId) = {})
              => /\ Val(lastGate').result = TRUE
                 /\ tasks'[t].pc = "slack.send"]_vars

\* the gate has answered false at hour 22 for a lead without any log
C9_Witness ==
  /\ IsSome(lastGate)
  /\ Val(lastGate).at = now
  /\ Val(lastGate).result = FALSE
  /\ getHours(now) = 22
  /\ notificationLogs = <<>>

\* C10: two lead notifications for the same lead are never sent less than 24
\* hours apart
C10_NotificationsSpaced ==
  \A i, j \in 1..Len(slackSent) :
    i < j /\ slackSent[i].leadId = slackSent[j].leadId =>
      slackSent[j].at - slackSent[i].at >= 24

\* ------------------------------------------------- claims: the webhook endpoint

C12_SignatureExact ==
  IsSome(verifyOut) /\ IsSome(webhookSecret) =>
    LET in == Val(verifyIn)
        digest == toHex(Hmac(Val(webhookSecret), in.payload))
    IN  Val(verifyOut) <=> in.signature \in {digest, Sha256Prefix \o digest}

\* C13: with a webhook secret configured, an event whose signature header does
\* not match its payload is rejected before dispatch: its handler invocation
\* ends with BadRequestException in its first step, and no Call, Lead or
\* NotificationLog row is created or changed and nothing is sent
C13_RejectedBeforeDispatch ==
  [][\A t \in TaskIds :
       /\ tasks[t].pc = "queued"
       /\ tasks'[t] # tasks[t]
       /\ IsSome(webhookSecret)
       /\ IsSome(tasks[t].signature)
       /\ Val(tasks[t].signature) \notin MatchingSignatures(tasks[t].payload)
       => /\ tasks'[t] = IdleTask
          /\ lastOutcome' = "BadRequestException"
          /\ UNCHANGED <<dbVars, slackSent, lastGate, scored>>]_vars

\* the first event of a behaviour was rejected for its signature, and the tables
\* are empty
C13_Witness ==
  /\ IsSome(webhookSecret)
  /\ lastOutcome = "BadRequestException"
  /\ received = 1
  /\ Idle
  /\ calls = <<>> /\ leads = <<>> /\ notificationLogs = <<>>

HandledTypes ==
  {"call.initiated", "call.answered", "call.completed", "call.recording.saved",
   "call.transcript.ready"}

\* C14: with no webhook secret configured, an event is dispatched whatever its
\* signature header: the first step of its handler invocation never ends with
\* BadRequestException, and an event of a handled type enters its handler
C14_FailOpen ==
  [][\A t \in TaskIds :
       tasks[t].pc = "queued" /\ tasks'[t] # tasks[t] /\ webhookSecret = None
       => /\ lastOutcome' # "BadRequestException"
          /\ tasks[t].payload.event_type \in HandledTypes
               => /\ tasks'[t].pc \notin {"idle", "queued"}
                  /\ tasks'[t].payload = tasks[t].payload]_vars

\* without a secret, a handler is running for an event whose header is the MAC
\* under another secret
C14_Witness ==
  /\ webhookSecret = None
  /\ \E t \in TaskIds :
       /\ tasks[t].pc \notin {"idle", "queued"}
       /\ IsSome(tasks[t].signature)
       /\ Val(tasks[t].signature) \notin MatchingSignatures(tasks[t].payload)

\* C15: in every reachable state each Call has at most one Lead whose callId
\* refers to it
C15_OneLeadPerCall ==
  \A i \in 1..Len(calls) :
    Cardinality({l \in 1..Len(leads) : leads[l].callId = calls[i].id}) <= 1

\* call.initiated (without caller id) and call.completed of one call ran
\* concurrently: captureAndScoreLead created the call's lead (captured is true),
\* the completion was notified and logged, and captureLeadFromCall's create for
\* the same call, coming last, was refused
C15_Witness ==
  /\ Idle
  /\ received = 2
  /\ Len(calls) = 1
  /\ Len(leads) = 1
  /\ leads[1].callId = calls[1].id
  /\ leads[1].callerPhone = None
  /\ leads[1].captured
  /\ Len(notificationLogs) = 1
  /\ lastOutcome = "rejected"

\* C16: handling an event that passed verification and whose type is none of the
\* five handled types, or is missing, ends without an error in its first step,
\* leaves every Call, Lead and NotificationLog row unchanged and sends nothing
C16_UnknownEventIgnored ==
  [][\A t \in TaskIds :
       /\ tasks[t].pc = "queued"
       /\ tasks'[t] # tasks[t]
       /\ tasks[t].payload.event_type \notin HandledTypes
       /\ \/ webhookSecret = None
          \/ tasks[t].signature = None
          \/ Val(tasks[t].signature) \in MatchingSignatures(tasks[t].payload)
       => /\ tasks'[t] = IdleTask
          /\ lastOutcome' \notin {"rejected", "BadRequestException"}
          /\ UNCHANGED <<calls, leads, notificationLogs, slackSent>>]_vars

\* an event without a type, arriving after a call was initiated, has been
\* ignored as the last of three events
C16_Witness ==
  /\ lastOutcome = "unhandled"
  /\ Idle
  /\ calls # <<>>
  /\ received = 3

\* ------------------------------------------------ claims: deduplication

\* the step in which captureAndScoreLead updates the lead its lookup returned
DedupUpdateStep(t) ==
  /\ tasks[t].pc = "lead.write"
  /\ tasks'[t].pc # "lead.write"
  /\ IsSome(tasks[t].existingLead)

\* the leads with a phone number created within the 7 days before now
LeadsInWindow(phone) ==
  {l \in 1..Len(leads) :
     leads[l].callerPhone = phone /\ now - leads[l].createdAt <= 7 * 24}

\* the step in which captureAndScoreLead's lookup findFirst returns
DedupLookupStep(t) ==
  /\ tasks[t].pc = "lead.findFirst"
  /\ tasks'[t].pc = "lead.write"

\* C17: when several leads with the caller's phone number were created within
\* the last 7 days, the lookup of captureAndScoreLead returns the most recently
\* created of them, and the update changes that lead and no other
C17_UpdatesMostRecent ==
  [][\A t \in TaskIds :
       /\ DedupLookupStep(t) /\ IsSome(tasks'[t].existingLead)
            => \A k \in LeadsInWindow(Val(tasks[t].call).phoneNumber) :
                 leads[k].createdAt <= leads[Val(tasks'[t].existingLead)].createdAt
       /\ DedupUpdateStep(t)
            => \A l \in 1..Len(leads) :
                 leads'[l] # leads[l] => l = Val(tasks[t].existingLead)]_vars

\* C18: the dedup window is inclusive at its boundary: the lookup returns a lead
\* with the caller's phone number when one was created 7 days before or later,
\* also exactly 7 days before, never a lead created earlier than that, and the
\* lead returned is updated in place
C18_WindowInclusive ==
  [][\A t \in TaskIds :
       /\ DedupLookupStep(t) =>
            LET phone == Val(tasks[t].call).phoneNumber
                inside == {l \in 1..Len(leads) :
                             /\ leads[l].callerPhone = phone
                             /\ now - leads[l].createdAt <= 7 * 24}
            IN  IF inside = {}
                THEN tasks'[t].existingLead = None
                ELSE /\ IsSome(tasks'[t].existingLead)
                     /\ Val(tasks'[t].existingLead) \in inside
       /\ DedupUpdateStep(t) =>
            /\ Len(leads') = Len(leads)
            /\ leads'[Val(tasks[t].existingLead)].updatedAt = now]_vars

\* the only lead is exactly 7 days old and has been updated by the new call
C18_Witness ==
  /\ Len(leads) = 1
  /\ now - leads[1].createdAt = 7 * 24
  /\ leads[1].updatedAt = now
  /\ calls[Len(calls)].status = "COMPLETED"

\* what calculateLeadScore returns for the completion event a handler carries
eventScore(payload) ==
  calculateLeadScore(
    [duration |-> IF IsSome(payload.completion.duration_seconds)
                  THEN Val(payload.completion.duration_seconds) ELSE 0,
     transcript |-> payload.completion.transcript,
     sentiment |-> payload.completion.sentiment,
     topics |-> IF IsSome(payload.completion.topics) THEN payload.completion.topics
                ELSE Some(<<>>)])

\* a breakdown has an entry with non-zero points under the name
Contributed(breakdown, name) ==
  \E i \in 1..Len(breakdown) : breakdown[i][1] = name /\ breakdown[i][2] # 0

\* C19: when captureAndScoreLead finds a prior lead in the window it creates no
\* row, keeps the lead's id, callId, callerPhone and createdAt, and sets
\* leadScore, leadQuality, interestLevel, sentimentScore, questionsAsked, the
\* three flags and qualificationNotes to the values of the new call alone
C19_OverwriteNotMerge ==
  [][\A t \in TaskIds :
       DedupUpdateStep(t) =>
         LET id == Val(tasks[t].existingLead)
             completion == tasks[t].payload.completion
             new == eventScore(tasks[t].payload)
         IN  /\ Len(leads') = Len(leads)
             /\ leads'[id].id = leads[id].id
             /\ leads'[id].callId = leads[id].callId
             /\ leads'[id].callerPhone = leads[id].callerPhone
             /\ leads'[id].createdAt = leads[id].createdAt
             /\ leads'[id].leadScore = new.score
             /\ leads'[id].leadQuality = new.quality
             /\ leads'[id].interestLevel = new.quality
             /\ leads'[id].sentimentScore = completion.sentiment
             /\ leads'[id].questionsAsked
                  = (IF IsSome(completion.topics) THEN Val(completion.topics) ELSE <<>>)
             /\ leads'[id].mentionedPricing = Contributed(new.breakdown, "pricing_interest")
             /\ leads'[id].mentionedInsurance
                  = Contributed(new.breakdown, "insurance_interest")
             /\ leads'[id].mentionedScheduling
                  = Contributed(new.breakdown, "appointment_intent")
             /\ leads'[id].qualificationNotes = Some(JSONstringify(new.breakdown))]_vars

\* the step in which captureAndScoreLead writes the lead, by update or by create
LeadWriteStep(t) ==
  /\ tasks[t].pc = "lead.write"
  /\ tasks'[t].pc = "notificationLog.findFirst"

\* C20: after captureAndScoreLead, on the create path and on the update path,
\* mentionedPricing, mentionedInsurance and mentionedScheduling of the lead are
\* true exactly when the breakdown of the call's score has a non-zero entry of
\* the pricing, insurance and scheduling rule, and false when it has no entry
C20_FlagsFollowBreakdown ==
  [][\A t \in TaskIds :
       LeadWriteStep(t) =>
         LET breakdown == eventScore(tasks[t].payload).breakdown
             written == IF IsSome(tasks[t].existingLead)
                        THEN leads'[Val(tasks[t].existingLead)]
                        ELSE leads'[Len(leads')]
         IN  /\ written.mentionedPricing = Contributed(breakdown, "pricing_interest")
             /\ written.mentionedInsurance = Contributed(breakdown, "insurance_interest")
             /\ written.mentionedScheduling = Contributed(breakdown, "appointment_intent")
             /\ Val(tasks'[t].lead) = written]_vars

\* a lead that had all three flags set has been updated by a call in which only
\* the insurance rule fired
C20_Witness ==
  \E l \in 1..Len(leads) :
    /\ leads[l].updatedAt = now
    /\ leads[l].createdAt < now
    /\ leads[l].mentionedInsurance
    /\ ~leads[l].mentionedPricing
    /\ ~leads[l].mentionedScheduling
    /\ leads[l].leadScore = eventScore(Payload("call.completed", TelnyxId(MaxCalls), None,
                                               InsuranceCall)).score

\* ------------------------------------------------ claims: the call lifecycle

\* C21: a call.initiated event creates a lead for its call only when it carries
\* a caller phone number: a call initiated without caller id has no lead until
\* its call.completed event has been handled
C21_LeadOnlyWithCallerId ==
  \A i \in 1..Len(calls) :
    calls[i].phoneNumber = None /\ calls[i].status # "COMPLETED" =>
      \A l \in 1..Len(leads) : leads[l].callId # calls[i].id

StatusRank(status) ==
  CASE status = "INITIATED" -> 1
    [] status = "ANSWERED" -> 2
    [] status = "COMPLETED" -> 3

\* C22: the status of a call only moves forward along INITIATED, ANSWERED,
\* COMPLETED: no step takes a call back to an earlier status, so a call that is
\* COMPLETED stays COMPLETED whatever event for it is handled later
C22_StatusMovesForward ==
  [][\A i \in 1..Len(calls) :
       StatusRank(calls'[i].status) >= StatusRank(calls[i].status)]_vars

C24_CallsByInitiatedOnly ==
  [][/\ Len(calls') >= Len(calls)
     /\ \A i \in 1..Len(calls) :
          /\ calls'[i].id = calls[i].id
          /\ calls'[i].telnyxCallId = calls[i].telnyxCallId
     /\ \A i, j \in 1..Len(calls') :
          calls'[i].telnyxCallId = calls'[j].telnyxCallId => i = j
     /\ Len(calls') > Len(calls) =>
          \E t \in TaskIds :
            /\ tasks[t].pc = "call.create"
            /\ tasks[t].payload.event_type = "call.initiated"
            /\ tasks'[t] # tasks[t]
     /\ \A t \in TaskIds :
          /\ (/\ tasks[t].pc = "call.create"
              /\ tasks'[t] # tasks[t]
              /\ callByTelnyxId(tasks[t].payload.id) # {})
               => /\ UNCHANGED <<calls, leads, notificationLogs, slackSent>>
                  /\ tasks'[t] = IdleTask
                  /\ lastOutcome' = "rejected"
          /\ (/\ tasks[t].pc = "call.findUnique"
              /\ tasks'[t] # tasks[t]
              /\ callByTelnyxId(tasks[t].payload.id) = {})
               => /\ UNCHANGED <<calls, leads, notificationLogs, slackSent>>
                  /\ tasks'[t] = IdleTask]_vars

\* a second call.initiated for the id of a stored call has been rejected and
\* the tables hold the one call and its one lead
C24_Witness ==
  /\ traffic = "lifecycle"
  /\ Idle
  /\ received = 2
  /\ lastOutcome = "rejected"
  /\ Len(calls) = 1
  /\ calls[1].status = "INITIATED"
  /\ Len(leads) = 1

Failures == {"rejected", "BadRequestException"}

RequestStep ==
  \E payload \in Payloads(traffic) :
    \E signature \in TrafficSignatures(traffic, payload) :
      handleWebhook(payload, signature)

\* C25: a request queues exactly one handler run and nothing else does: a run
\* that ends, by returning or by throwing, leaves its slot empty and is not
\* queued again, and after a failure the endpoint accepts the next request as
\* before
C25_OneInvocationNoRetry ==
  [][/\ received' \in {received, received + 1}
     /\ received' = received + 1 =>
          \E t \in TaskIds :
            /\ tasks[t].pc = "idle"
            /\ tasks'[t].pc = "queued"
            /\ \A u \in TaskIds \ {t} : tasks'[u] = tasks[u]
     /\ \A t \in TaskIds :
          /\ (tasks'[t].pc = "queued" /\ tasks'[t] # tasks[t])
               => tasks[t].pc = "idle" /\ received' = received + 1
          /\ (tasks[t].pc # "idle" /\ tasks'[t].pc = "idle")
               => /\ tasks'[t] = IdleTask
                  /\ received' = received
                  /\ \A u \in TaskIds \ {t} : tasks'[u] = tasks[u]
          /\ (tasks[t].pc # "idle" /\ tasks'[t].pc # "idle")
               => tasks'[t].payload = tasks[t].payload
     /\ (lastOutcome \in Failures /\ acceptsRequest) => ENABLED RequestStep]_vars

\* a handler has thrown, every slot is empty again and the bound on requests is
\* not reached
C25_Witness ==
  /\ Idle
  /\ lastOutcome \in Failures
  /\ received \in 1..(MaxEvents - 1)
  /\ \A t \in TaskIds : tasks[t] = IdleTask

\* ------------------------------------------------- claims: notifications

\* C26: when the gate answers false the handler ends there: nothing is sent or
\* logged and no other handler is started; a handler reaches the Slack call only
\* from a gate that answered true, and a message is sent only by the handler of a
\* call.completed event, for that handler's lead
C26_SuppressedIsDropped ==
  [][/\ \A t \in TaskIds :
          /\ (GateStep(t) /\ ~Val(lastGate').result)
               => /\ tasks'[t] = IdleTask
                  /\ \A u \in TaskIds \ {t} : tasks'[u] = tasks[u]
                  /\ UNCHANGED <<slackSent, notificationLogs>>
          /\ (tasks'[t].pc = "slack.send" /\ tasks[t].pc # "slack.send")
               => GateStep(t) /\ Val(lastGate').result
     /\ slackSent' # slackSent =>
          \E t \in TaskIds :
            /\ tasks[t].pc = "slack.send"
            /\ tasks[t].payload.event_type = "call.completed"
            /\ tasks'[t].pc = "notificationLog.create"
            /\ Len(slackSent') = Len(slackSent) + 1
            /\ SubSeq(slackSent', 1, Len(slackSent)) = slackSent
            /\ slackSent'[Len(slackSent')].leadId = Val(tasks[t].lead).id]_vars

\* with Slack configured the gate has refused a lead, the handler has returned,
\* and no message for the lead has gone out at or after the refusal
C26_Witness ==
  /\ slackConfigured
  /\ Idle
  /\ lastOutcome = "resolved"
  /\ IsSome(lastGate)
  /\ ~Val(lastGate).result
  /\ \A k \in 1..Len(slackSent) :
       slackSent[k].leadId = Val(lastGate).leadId => slackSent[k].at < Val(lastGate).at

\* C27: every handler that has made the Slack call, whether the call delivered
\* or rejected, goes on to add exactly one log row for its lead; and the rows
\* already in the log are never changed or removed
C27_EveryAttemptLogged ==
  [][/\ Len(notificationLogs') >= Len(notificationLogs)
     /\ SubSeq(notificationLogs', 1, Len(notificationLogs)) = notificationLogs
     /\ \A t \in TaskIds :
          /\ (tasks[t].pc = "slack.send" /\ tasks'[t] # tasks[t])
               => tasks'[t].pc = "notificationLog.create"
          /\ (tasks[t].pc = "notificationLog.create" /\ tasks'[t] # tasks[t])
               => /\ Len(notificationLogs') = Len(notificationLogs) + 1
                  /\ notificationLogs'[Len(notificationLogs')].leadId
                       = Val(tasks[t].lead).id]_vars

\* ------------------------------------------------- claims: concurrency

\* C28: the write of captureAndScoreLead acts on what its own lookup returned,
\* whatever other handlers have written since: after a lookup that found no lead
\* it creates one, also when a lead for the phone number has appeared in the
\* window meanwhile, and after a lookup that found a lead it overwrites that
\* lead's scoring with its own, also when another handler has just scored it
C28_DedupUnguarded ==
  [][\A t \in TaskIds :
       (tasks[t].pc = "lead.write" /\ tasks'[t] # tasks[t]) =>
         LET call == Val(tasks[t].call)
             scoring == Val(tasks[t].scoring)
         IN
         /\ (tasks[t].existingLead = None /\ callIdFree(call.id))
              => /\ Len(leads') = Len(leads) + 1
                 /\ SubSeq(leads', 1, Len(leads)) = leads
                 /\ leads'[Len(leads')].callId = call.id
                 /\ leads'[Len(leads')].callerPhone = call.phoneNumber
                 /\ leads'[Len(leads')].leadScore = scoring.score
         /\ IsSome(tasks[t].existingLead)
              => /\ Len(leads') = Len(leads)
                 /\ leads'[Val(tasks[t].existingLead)].leadScore = scoring.score
                 /\ leads'[Val(tasks[t].existingLead)].leadQuality = scoring.quality]_vars

\* two leads created by captureAndScoreLead for two calls from one phone number
\* stand in the table, created inside one dedup window
C28_Witness ==
  \E i, j \in 1..Len(leads) :
    /\ i < j
    /\ leads[i].callId # leads[j].callId
    /\ IsSome(leads[i].callerPhone)
    /\ leads[i].callerPhone = leads[j].callerPhone
    /\ leads[i].leadQuality # NULL
    /\ leads[j].leadQuality # NULL
    /\ leads[j].createdAt - leads[i].createdAt <= DEDUP_WINDOW
    /\ \A k \in 1..Len(leads) : k \in {i, j}

\* ------------------------------------------------- claims: authentication

\* C29: with a webhook secret configured, every event whose handler is running
\* arrived with a signature header that verifies against its payload; an event
\* without the header never gets past the dispatch
C29_OnlyVerifiedDispatched ==
  IsSome(webhookSecret) =>
    \A t \in TaskIds :
      tasks[t].pc \notin {"idle", "queued"} =>
        /\ IsSome(tasks[t].signature)
        /\ verifyWebhookSignature(tasks[t].payload, tasks[t].signature)

\* ------------------------------------------------- claims: the stored tier

TierConsistent(lead) ==
  /\ lead.leadScore \in 0..100
  /\ lead.leadQuality = "HOT" <=> lead.leadScore >= 75
  /\ lead.leadQuality = "WARM" <=> lead.leadScore \in 50..74
  /\ lead.leadQuality = "COLD" <=> lead.leadScore <= 49

HeaderAgrees(header, quality) ==
  /\ header = "HOT LEAD" <=> quality = "HOT"
  /\ header = "WARM LEAD" <=> quality = "WARM"
  /\ header = "COLD LEAD" <=> quality = "COLD"

TiersStored ==
  /\ \A l \in 1..Len(leads) :
       leads[l].leadQuality # NULL =>
         /\ TierConsistent(leads[l])
         /\ HeaderAgrees(leadMessage(leads[l]).header, leads[l].leadQuality)
  /\ \A k \in 1..Len(slackSent) :
       slackSent[k].quality # NULL =>
         HeaderAgrees(slackSent[k].header, slackSent[k].quality)

====
